---- MODULE Spec2Model ----
(***************************************************************************)
(* Model of scripts/convert_kimi_tokenizer.py: load_kimi_encoding          *)
(* (BuildSpec), convert_to_fast_tokenizer and main (Run).                   *)
(*                                                                         *)
(* The library calls the script makes on the file system and on the        *)
(* tokenizer libraries (open, load_tiktoken_bpe, tiktoken.get_encoding,     *)
(* convert_tiktoken_to_fast, AutoTokenizer.from_pretrained) are the         *)
(* environment: their outcomes are inputs, chosen in Init or at the call.   *)
(* A byte sequence (a key of a rank table) is represented by its index in   *)
(* a fixed enumeration of the byte strings.  A rank table (a dict from      *)
(* byte sequences to ranks) is represented by a set of runs: the run        *)
(* [first_key, first_rank, count] maps key first_key + i to rank            *)
(* first_rank + i for i < count; the runs of a table have disjoint keys.    *)
(* An optional value (Python's None or an object) is a sequence of length   *)
(* 0 or 1.                                                                  *)
(***************************************************************************)
EXTENDS Integers, Sequences, FiniteSets, TLC

VARIABLES
    model_path,          \* argument of main / load_kimi_encoding
    output_dir,          \* argument of main / convert_to_fast_tokenizer
    base_encoding_name,  \* argument of main / load_kimi_encoding
    fs_open,             \* what open(model_path, 'rb') + read() does: "ok" or the error
    fs_bpe,              \* what load_tiktoken_bpe(model_path) does: ranks or the error
    pc,                  \* position of the single thread of control
    mergeable_ranks,     \* local of load_kimi_encoding (None until bound)
    encoding,            \* local of main: the tiktoken.Encoding (None until bound)
    exc,                 \* the exception being propagated / last caught ("" = none)
    fast_tokenizer,      \* local of convert_to_fast_tokenizer (None until bound)
    artifact,            \* what this run has left in output_dir
    result,              \* return value of main (None until a tokenizer is returned)
    trace                \* calls made to the libraries and lines printed, in order

vars == <<model_path, output_dir, base_encoding_name, fs_open, fs_bpe, pc,
          mergeable_ranks, encoding, exc, fast_tokenizer, artifact, result, trace>>

(* ------------------------------ bounds -------------------------------- *)

\* Byte sequences 0 .. MaxKeys-1 are the keys of the small rank tables.
MaxKeys == 3

(* --------------------------- values and helpers ------------------------ *)

None == <<>>
Some(x) == <<x>>

\* The rank table holding the entries of the function f.
TableOf(f) == {[first_key |-> k, first_rank |-> f[k], count |-> 1] : k \in DOMAIN f}

\* The rank table of n entries giving key k the rank k.
IdentityTable(n) == {[first_key |-> 0, first_rank |-> 0, count |-> n]}

\* dict.keys()
Keys(t) == UNION {r.first_key .. (r.first_key + r.count - 1) : r \in t}

\* dict[k]
RankOf(t, k) ==
    LET r == CHOOSE r \in t : k \in r.first_key .. (r.first_key + r.count - 1)
    IN  r.first_rank + (k - r.first_key)

\* v in dict.values()
HasRank(t, v) == \E r \in t : v \in r.first_rank .. (r.first_rank + r.count - 1)

\* len(dict)
Size(t) == Cardinality(Keys(t))

IsInjective(f) == \A a, b \in DOMAIN f : f[a] = f[b] => a = b

\* Kimi's special tokens (load_kimi_encoding, the dict literal).
SpecialTokenNames ==
    {"[BOS]", "[EOS]", "<|im_end|>", "<|im_user|>", "<|im_assistant|>",
     "<|start_header_id|>", "<|end_header_id|>", "[EOT]", "<|im_system|>",
     "<|tool_calls_section_begin|>", "<|tool_calls_section_end|>",
     "<|tool_call_begin|>", "<|tool_call_argument_begin|>", "<|tool_call_end|>",
     "<|im_middle|>", "[UNK]", "[PAD]"}

SpecialTokenId(tok) ==
    CASE tok = "[BOS]" -> 163584
      [] tok = "[EOS]" -> 163585
      [] tok = "<|im_end|>" -> 163586
      [] tok = "<|im_user|>" -> 163587
      [] tok = "<|im_assistant|>" -> 163588
      [] tok = "<|start_header_id|>" -> 163590
      [] tok = "<|end_header_id|>" -> 163591
      [] tok = "[EOT]" -> 163593
      [] tok = "<|im_system|>" -> 163594
      [] tok = "<|tool_calls_section_begin|>" -> 163595
      [] tok = "<|tool_calls_section_end|>" -> 163596
      [] tok = "<|tool_call_begin|>" -> 163597
      [] tok = "<|tool_call_argument_begin|>" -> 163598
      [] tok = "<|tool_call_end|>" -> 163599
      [] tok = "<|im_middle|>" -> 163601
      [] tok = "[UNK]" -> 163838
      [] tok = "[PAD]" -> 163839

special_tokens_shifted ==
    [tok \in SpecialTokenNames |-> SpecialTokenId(tok) - 1]

special_tokens == [tok \in SpecialTokenNames |-> SpecialTokenId(tok)]

\* The pat_str literal and the name literal of the Encoding.
pat_str == "'(?:[sdmt]|ll|ve|re)|[^\\r\\n\\p{L}\\p{N}]?[\\p{L}]+|\\p{N}{1,3}| ?[^\\s\\p{L}\\p{N}]+[\\r\\n]*|\\s*[\\r\\n]+|\\s+(?!\\S)|\\s+"

encoding_name == "kimi_k2"

EncodingRenumbered(ranks) ==
    [name |-> encoding_name,
     pat_str |-> pat_str,
     mergeable_ranks |-> {[r EXCEPT !.first_rank = @ + 1] : r \in ranks},
     special_tokens |-> special_tokens]

\* tiktoken.Encoding(name=..., pat_str=..., mergeable_ranks=..., special_tokens=...)
Encoding(ranks) ==
    [name |-> encoding_name,
     pat_str |-> pat_str,
     mergeable_ranks |-> ranks,
     special_tokens |-> special_tokens]

(* ----------------------------- environment ----------------------------- *)

\* Rank tables with unique ranks contiguous from 0 over the small keys.
SmallTables ==
    UNION {{TableOf(f) : f \in {g \in [S -> 0 .. (Cardinality(S) - 1)] : IsInjective(g)}} :
              S \in (SUBSET (0 .. (MaxKeys - 1))) \ {{}}}

\* The first special-token id: a model file whose ranks 0 .. id("[BOS]")-1 lie
\* below every special-token id.
KimiBaseSize == SpecialTokenId("[BOS]")

\* The id space of the Kimi vocabulary is 0 .. id of "[PAD]": a model file
\* with that many merge ranks, contiguous from 0.
KimiVocabSize == SpecialTokenId("[PAD]") + 1

LargeTables == {IdentityTable(KimiBaseSize), IdentityTable(KimiVocabSize)}

ModelPaths == {"/ckpt/Kimi-K2-Instruct/tiktoken.model", "https://host/tiktoken.model"}

OutputDirs == {"/ckpt/Kimi-K2-Instruct"}

\* Outcomes of open(model_path, 'rb') followed by f.read().  The built-in
\* open() takes local paths only.  Its outcome and the outcome of
\* load_tiktoken_bpe on the same path are two separate calls into the
\* environment: load_tiktoken_bpe also fetches URL / blob paths and serves
\* earlier reads from its cache, so it can load what open() cannot.
OpenOutcomes(path) ==
    IF path = "https://host/tiktoken.model"
    THEN {"FileNotFoundError"}
    ELSE {"ok", "FileNotFoundError", "PermissionError"}

\* Outcomes of load_tiktoken_bpe(model_path).
BpeOk(ranks) == [ok |-> TRUE, err |-> "", ranks |-> Some(ranks)]
BpeError(e) == [ok |-> FALSE, err |-> e, ranks |-> None]

BpeOutcomes ==
    {BpeOk(t) : t \in SmallTables \cup LargeTables}
        \cup {BpeError("ValueError: Error parsing line")}

\* tiktoken's registry of built-in encodings, as far as the names used here.
KnownEncodings == {"cl100k_base", "gpt2"}

BaseEncodingNames == KnownEncodings \cup {"no_such_encoding"}

\* base_encoding._mergeable_ranks of tiktoken.get_encoding(name), name known.
BaseRanks(name) ==
    IF name = "cl100k_base"
    THEN TableOf([k \in 0 .. MaxKeys |-> MaxKeys - k])
    ELSE TableOf([k \in 0 .. (MaxKeys - 1) |-> (k + 1) % MaxKeys])

(* ------------------------------- output -------------------------------- *)

Called(f, arg) == [kind |-> "call", text |-> <<f, arg>>]
Printed(text) == [kind |-> "print", text |-> text]

FallbackMessageNoReason(path, reason, name) ==
    <<"Failed to load ", path, ". Using base encoding ", name, "...">>

\* f"Failed to load {model_path} directly: {str(e)}. Using base encoding {base_encoding_name}..."
FallbackMessage(path, reason, name) ==
    <<"Failed to load ", path, " directly: ", reason,
      ". Using base encoding ", name, "...">>

\* The three prints of main after load_kimi_encoding returned.
SizeDiagnostics(enc) ==
    <<Printed(<<"Successfully created encoding object: ", enc.name>>),
      Printed(<<"Number of special tokens: ",
              ToString(Cardinality(DOMAIN enc.special_tokens))>>),
      Printed(<<"Number of BPE ranks: ",
              ToString(Size(enc.mergeable_ranks))>>)>>

\* f"Verification: Fast tokenizer is {'valid' if fast_tokenizer.is_fast else 'invalid'}"
VerificationMessage(tok) ==
    <<"Verification: Fast tokenizer is ", IF tok.is_fast THEN "valid" ELSE "invalid">>

(* -------------------------------- Init --------------------------------- *)

Init ==
    /\ model_path \in ModelPaths
    /\ output_dir \in OutputDirs
    /\ base_encoding_name \in BaseEncodingNames
    /\ fs_open \in OpenOutcomes(model_path)
    /\ fs_bpe \in BpeOutcomes
    /\ pc = "open"
    /\ mergeable_ranks = None
    /\ encoding = None
    /\ exc = ""
    /\ fast_tokenizer = None
    /\ artifact = "absent"
    /\ result = None
    /\ trace = <<>>

(* ------------------------- load_kimi_encoding -------------------------- *)

\* with open(model_path, 'rb') as f: data = f.read()
OpenRead ==
    /\ pc = "open"
    /\ IF fs_open = "ok"
       THEN /\ pc' = "load_bpe"
            /\ exc' = exc
       ELSE /\ pc' = "except_load"
            /\ exc' = fs_open
    /\ trace' = Append(trace, Called("open", model_path))
    /\ UNCHANGED <<model_path, output_dir, base_encoding_name, fs_open, fs_bpe,
                   mergeable_ranks, encoding, fast_tokenizer, artifact, result>>

\* mergeable_ranks = load_tiktoken_bpe(model_path)
LoadBpe ==
    /\ pc = "load_bpe"
    /\ IF fs_bpe.ok
       THEN /\ mergeable_ranks' = fs_bpe.ranks
            /\ pc' = "build_encoding"
            /\ exc' = exc
       ELSE /\ mergeable_ranks' = mergeable_ranks
            /\ pc' = "except_load"
            /\ exc' = fs_bpe.err
    /\ trace' = Append(trace, Called("load_tiktoken_bpe", model_path))
    /\ UNCHANGED <<model_path, output_dir, base_encoding_name, fs_open, fs_bpe,
                   encoding, fast_tokenizer, artifact, result>>

FallbackDefaultsOnUnknown ==
    /\ pc = "except_load"
    /\ trace' = trace \o
           <<Printed(FallbackMessage(model_path, exc, base_encoding_name)),
             Called("get_encoding", base_encoding_name)>>
    /\ mergeable_ranks' =
           Some(BaseRanks(IF base_encoding_name \in KnownEncodings
                          THEN base_encoding_name ELSE "cl100k_base"))
    /\ exc' = ""
    /\ pc' = "build_encoding"
    /\ UNCHANGED <<model_path, output_dir, base_encoding_name, fs_open, fs_bpe,
                   encoding, fast_tokenizer, artifact, result>>

\* except Exception as e: print(...); base_encoding = tiktoken.get_encoding(...);
\* mergeable_ranks = base_encoding._mergeable_ranks
Fallback ==
    /\ pc = "except_load"
    /\ trace' = trace \o
           <<Printed(FallbackMessage(model_path, exc, base_encoding_name)),
             Called("get_encoding", base_encoding_name)>>
    /\ IF base_encoding_name \in KnownEncodings
       THEN /\ mergeable_ranks' = Some(BaseRanks(base_encoding_name))
            /\ exc' = ""
            /\ pc' = "build_encoding"
       ELSE /\ mergeable_ranks' = mergeable_ranks
            /\ exc' = "ValueError: Unknown encoding"
            /\ pc' = "except_main"
    /\ UNCHANGED <<model_path, output_dir, base_encoding_name, fs_open, fs_bpe,
                   encoding, fast_tokenizer, artifact, result>>

BuildEncodingSpecialOnFallback ==
    /\ pc = "build_encoding"
    /\ encoding' =
           Some([Encoding(mergeable_ranks[1]) EXCEPT
                    !.special_tokens =
                        IF fs_open = "ok" /\ fs_bpe.ok
                        THEN [tok \in {} |-> 0] ELSE special_tokens])
    /\ pc' = "report"
    /\ trace' = Append(trace, Called("Encoding", encoding_name))
    /\ UNCHANGED <<model_path, output_dir, base_encoding_name, fs_open, fs_bpe,
                   mergeable_ranks, exc, fast_tokenizer, artifact, result>>

\* special_tokens = {...}; return tiktoken.Encoding(...)
BuildEncoding ==
    /\ pc = "build_encoding"
    /\ encoding' = Some(Encoding(mergeable_ranks[1]))
    /\ pc' = "report"
    /\ trace' = Append(trace, Called("Encoding", encoding_name))
    /\ UNCHANGED <<model_path, output_dir, base_encoding_name, fs_open, fs_bpe,
                   mergeable_ranks, exc, fast_tokenizer, artifact, result>>

(* -------------------------------- main --------------------------------- *)

\* the three prints between load_kimi_encoding and convert_to_fast_tokenizer
Report ==
    /\ pc = "report"
    /\ trace' = trace \o SizeDiagnostics(encoding[1])
    /\ pc' = "convert"
    /\ UNCHANGED <<model_path, output_dir, base_encoding_name, fs_open, fs_bpe,
                   mergeable_ranks, encoding, exc, fast_tokenizer, artifact, result>>

(* ---------------------- convert_to_fast_tokenizer ---------------------- *)

ConvertIgnoringFailure ==
    /\ pc = "convert"
    /\ \/ /\ artifact' = "saved"
          /\ trace' = trace \o
                 <<Called("convert_tiktoken_to_fast", output_dir),
                   Printed(<<"Conversion completed! Fast tokenizer saved to ", output_dir>>)>>
          /\ exc' = exc
       \/ /\ artifact' \in {"absent", "partial"}
          /\ trace' = Append(trace, Called("convert_tiktoken_to_fast", output_dir))
          /\ exc' = "BuildFailure"
    /\ pc' = "reload"
    /\ UNCHANGED <<model_path, output_dir, base_encoding_name, fs_open, fs_bpe,
                   mergeable_ranks, encoding, fast_tokenizer, result>>

\* convert_tiktoken_to_fast(encoding, output_dir); print("Conversion completed! ...")
Convert ==
    /\ pc = "convert"
    /\ \/ /\ artifact' = "saved"
          /\ trace' = trace \o
                 <<Called("convert_tiktoken_to_fast", output_dir),
                   Printed(<<"Conversion completed! Fast tokenizer saved to ", output_dir>>)>>
          /\ exc' = exc
          /\ pc' = "reload"
       \/ /\ artifact' \in {"absent", "partial"}
          /\ trace' = Append(trace, Called("convert_tiktoken_to_fast", output_dir))
          /\ exc' = "BuildFailure"
          /\ pc' = "except_main"
    /\ UNCHANGED <<model_path, output_dir, base_encoding_name, fs_open, fs_bpe,
                   mergeable_ranks, encoding, fast_tokenizer, result>>

\* fast_tokenizer = AutoTokenizer.from_pretrained(output_dir)
Reload ==
    /\ pc = "reload"
    /\ trace' = Append(trace, Called("from_pretrained", output_dir))
    /\ \/ /\ \E is_fast \in BOOLEAN :
                fast_tokenizer' = Some([dir |-> output_dir, is_fast |-> is_fast])
          /\ exc' = exc
          /\ pc' = "verify"
       \/ /\ fast_tokenizer' = fast_tokenizer
          /\ exc' = "LoadFailure"
          /\ pc' = "except_main"
    /\ UNCHANGED <<model_path, output_dir, base_encoding_name, fs_open, fs_bpe,
                   mergeable_ranks, encoding, artifact, result>>

VerifyRejectingSlow ==
    /\ pc = "verify"
    /\ trace' = Append(trace, Printed(VerificationMessage(fast_tokenizer[1])))
    /\ result' = IF fast_tokenizer[1].is_fast THEN fast_tokenizer ELSE None
    /\ pc' = "done"
    /\ UNCHANGED <<model_path, output_dir, base_encoding_name, fs_open, fs_bpe,
                   mergeable_ranks, encoding, exc, fast_tokenizer, artifact>>

\* print(f"Verification: ..."); return fast_tokenizer  (returned by main as is)
Verify ==
    /\ pc = "verify"
    /\ trace' = Append(trace, Printed(VerificationMessage(fast_tokenizer[1])))
    /\ result' = fast_tokenizer
    /\ pc' = "done"
    /\ UNCHANGED <<model_path, output_dir, base_encoding_name, fs_open, fs_bpe,
                   mergeable_ranks, encoding, exc, fast_tokenizer, artifact>>

MainExceptReraising ==
    /\ pc = "except_main"
    /\ trace' = trace \o
           <<Printed(<<"Conversion failed: ", exc>>),
             [kind |-> "traceback", text |-> <<exc>>]>>
    /\ pc' = "raised"
    /\ UNCHANGED <<model_path, output_dir, base_encoding_name, fs_open, fs_bpe,
                   mergeable_ranks, encoding, exc, fast_tokenizer, artifact, result>>

MainExceptCleaningUp ==
    /\ pc = "except_main"
    /\ trace' = trace \o
           <<Printed(<<"Conversion failed: ", exc>>),
             [kind |-> "traceback", text |-> <<exc>>]>>
    /\ result' = None
    /\ artifact' = "absent"
    /\ pc' = "done"
    /\ UNCHANGED <<model_path, output_dir, base_encoding_name, fs_open, fs_bpe,
                   mergeable_ranks, encoding, exc, fast_tokenizer>>

\* except Exception as e: print(f"Conversion failed: ..."); traceback.print_exc();
\* return None
MainExcept ==
    /\ pc = "except_main"
    /\ trace' = trace \o
           <<Printed(<<"Conversion failed: ", exc>>),
             [kind |-> "traceback", text |-> <<exc>>]>>
    /\ result' = None
    /\ pc' = "done"
    /\ UNCHANGED <<model_path, output_dir, base_encoding_name, fs_open, fs_bpe,
                   mergeable_ranks, encoding, exc, fast_tokenizer, artifact>>

Next ==
    \/ OpenRead
    \/ LoadBpe
    \/ Fallback
    \/ BuildEncoding
    \/ Report
    \/ Convert
    \/ Reload
    \/ Verify
    \/ MainExcept

Spec == Init /\ [][Next]_vars

(* ------------------------------ properties ----------------------------- *)

\* load_kimi_encoding has returned or raised.
BuildSpecFinished == pc \in {"report", "convert", "reload", "verify", "except_main", "done"}

\* main has passed its three prints.
ReportDone == pc \in {"convert", "reload", "verify", "done"} \/ (pc = "except_main" /\ encoding # None)

\* The try block of load_kimi_encoding fails: the raw read or the rank-table parse.
LoadFailed == fs_open # "ok" \/ ~fs_bpe.ok

\* str(e) of the exception the try block of load_kimi_encoding raises.
LoadFailureReason == IF fs_open # "ok" THEN fs_open ELSE fs_bpe.err

Contains(text, s) == \E i \in DOMAIN text : text[i] = s

HasPrinted(text) == \E i \in DOMAIN trace : trace[i] = Printed(text)

CallsOf(f) == {i \in DOMAIN trace : trace[i].kind = "call" /\ trace[i].text[1] = f}

PrintsStarting(prefix) ==
    {i \in DOMAIN trace : trace[i].kind = "print" /\ trace[i].text[1] = prefix}

UsedFallback == CallsOf("get_encoding") # {}

\* Two rank tables have the same keys and give every key the same rank.
SameTable(a, b) ==
    /\ Keys(a) = Keys(b)
    /\ \A k \in Keys(a) : RankOf(a, k) = RankOf(b, k)

\* C1: when the load of the model file fails and the fallback name is a known
\* encoding, load_kimi_encoding returns an Encoding (raises nothing), has
\* printed one fallback line holding the model path and the failure reason,
\* and the Encoding's rank table is the fallback encoding's table: same keys,
\* same rank for every key.
C1_FallbackUsesBaseRanks ==
    (BuildSpecFinished /\ LoadFailed /\ base_encoding_name \in KnownEncodings) =>
        /\ encoding # None
        /\ \E i \in PrintsStarting("Failed to load ") :
              /\ Contains(trace[i].text, model_path)
              /\ Contains(trace[i].text, LoadFailureReason)
        /\ SameTable(encoding[1].mergeable_ranks, BaseRanks(base_encoding_name))

C1_Witness ==
    /\ pc = "convert"
    /\ fs_open = "FileNotFoundError"
    /\ base_encoding_name = "cl100k_base"
    /\ encoding # None
    /\ SameTable(encoding[1].mergeable_ranks, BaseRanks("cl100k_base"))
    /\ HasPrinted(FallbackMessage(model_path, "FileNotFoundError", "cl100k_base"))

\* C2: for a valid model file (the read and the parse succeed) the Encoding's
\* rank table has the cardinality of the parsed table and gives every byte
\* sequence its parsed rank, and main prints that cardinality and the
\* special-token count 17.
C2_PrimaryKeepsParsedRanks ==
    (fs_open = "ok" /\ fs_bpe.ok) =>
        /\ BuildSpecFinished =>
              /\ encoding # None
              /\ Size(encoding[1].mergeable_ranks) = Size(fs_bpe.ranks[1])
              /\ SameTable(encoding[1].mergeable_ranks, fs_bpe.ranks[1])
        /\ ReportDone =>
              /\ HasPrinted(<<"Number of BPE ranks: ", ToString(Size(fs_bpe.ranks[1]))>>)
              /\ HasPrinted(<<"Number of special tokens: ", "17">>)

C2_Witness ==
    /\ pc = "convert"
    /\ fs_open = "ok"
    /\ fs_bpe.ok
    /\ Size(encoding[1].mergeable_ranks) = 163840
    /\ HasPrinted(<<"Number of BPE ranks: ", "163840">>)
    /\ HasPrinted(<<"Number of special tokens: ", "17">>)

\* C3: load_kimi_encoding raises, leaving no Encoding, exactly when the load
\* of the model file fails and the fallback name is not a known encoding; the
\* exception it raises is then the one of the failed encoding lookup.
C3_FailsOnlyOnUnknownFallback ==
    BuildSpecFinished =>
        /\ (encoding = None) <=> (LoadFailed /\ base_encoding_name \notin KnownEncodings)
        /\ (encoding = None) =>
              /\ exc = "ValueError: Unknown encoding"
              /\ CallsOf("Encoding") = {}

C3_Witness ==
    /\ pc = "except_main"
    /\ ~fs_bpe.ok
    /\ base_encoding_name \notin KnownEncodings
    /\ encoding = None
    /\ exc = "ValueError: Unknown encoding"

\* C4: main always ends by returning: a failure of load_kimi_encoding, of the
\* builder or of the loader is printed and turned into a None result, and a
\* non-None result is returned only when all three completed without failure.
C4_MainNeverPropagates ==
    /\ pc # "done" => ENABLED Next
    /\ (pc = "done" /\ exc # "") =>
          /\ result = None
          /\ HasPrinted(<<"Conversion failed: ", exc>>)
    /\ result # None =>
          /\ pc = "done"
          /\ exc = ""
          /\ encoding # None
          /\ CallsOf("convert_tiktoken_to_fast") # {}
          /\ artifact = "saved"
          /\ CallsOf("from_pretrained") # {}
          /\ fast_tokenizer # None

C4_Witness ==
    /\ pc = "done"
    /\ exc = "LoadFailure"
    /\ result = None
    /\ HasPrinted(<<"Conversion failed: ", "LoadFailure">>)

\* C5: every Encoding load_kimi_encoding returns, on either branch, carries
\* the same special-token table of exactly 17 entries with pairwise distinct
\* ids, the same split pattern and the same name.
C5_ConstantParts ==
    encoding # None =>
        /\ encoding[1].special_tokens = special_tokens
        /\ Cardinality(DOMAIN encoding[1].special_tokens) = 17
        /\ IsInjective(encoding[1].special_tokens)
        /\ encoding[1].pat_str = pat_str
        /\ encoding[1].name = "kimi_k2"

C5_Witness ==
    /\ encoding # None
    /\ LoadFailed
    /\ UsedFallback
    /\ Cardinality(DOMAIN encoding[1].special_tokens) = 17
    /\ encoding[1].pat_str = pat_str

\* No special-token id of the Encoding is the rank of a byte sequence.
IdsDisjointFromRanks(enc) ==
    \A tok \in DOMAIN enc.special_tokens :
        ~HasRank(enc.mergeable_ranks, enc.special_tokens[tok])

\* C6 (as claimed): in every Encoding load_kimi_encoding returns, no
\* special-token id is the rank of a mergeable byte sequence, for every rank
\* table with ranks unique and contiguous from 0, a model file of 163,840
\* ranks included.
C6_Original ==
    encoding # None => IdsDisjointFromRanks(encoding[1])

\* C6 (amended): in every Encoding load_kimi_encoding returns whose rank
\* table (ranks unique and contiguous from 0) has at most 163584 entries, no
\* special-token id is the rank of a mergeable byte sequence.
C6_DisjointBelowFirstSpecialId ==
    (encoding # None /\ Size(encoding[1].mergeable_ranks) <= 163584) =>
        IdsDisjointFromRanks(encoding[1])

C6_Witness ==
    /\ encoding # None
    /\ Size(encoding[1].mergeable_ranks) = 163584
    /\ IdsDisjointFromRanks(encoding[1])

\* C7: when the builder and the loader completed, main returns the reloaded
\* tokenizer whatever its is_fast flag: a false flag only prints "invalid";
\* the builder and the loader were each called once and the artifact stays.
C7_VerificationOnlyReported ==
    (pc = "done" /\ fast_tokenizer # None) =>
        /\ result # None
        /\ result = fast_tokenizer
        /\ result[1].dir = output_dir
        /\ HasPrinted(<<"Verification: Fast tokenizer is ",
                        IF fast_tokenizer[1].is_fast THEN "valid" ELSE "invalid">>)
        /\ Cardinality(CallsOf("convert_tiktoken_to_fast")) = 1
        /\ Cardinality(CallsOf("from_pretrained")) = 1
        /\ artifact = "saved"

C7_Witness ==
    /\ pc = "done"
    /\ fast_tokenizer # None
    /\ ~fast_tokenizer[1].is_fast
    /\ result = fast_tokenizer
    /\ HasPrinted(<<"Verification: Fast tokenizer is ", "invalid">>)

\* C8: the raw read is a no-op: the fallback is taken (diagnostic printed,
\* fallback encoding resolved) if and only if parsing model_path as a rank
\* table fails.
C8_ReadIsNoOp ==
    BuildSpecFinished =>
        /\ UsedFallback <=> ~fs_bpe.ok
        /\ (PrintsStarting("Failed to load ") # {}) <=> ~fs_bpe.ok

\* C9: the stages run in the order load_kimi_encoding, size diagnostics,
\* builder, loader, each only after every earlier one completed: no builder
\* call after load_kimi_encoding failed, no loader call after the builder
\* failed, and the size diagnostics precede the builder call (so they are
\* printed also when the builder then fails).
C9_StageOrder ==
    /\ \A b \in CallsOf("convert_tiktoken_to_fast") :
          /\ encoding # None
          /\ \E e \in CallsOf("Encoding") :
                /\ \E s \in PrintsStarting("Successfully created encoding object: ") :
                      e < s /\ s < b
                /\ \E s \in PrintsStarting("Number of special tokens: ") : e < s /\ s < b
                /\ \E s \in PrintsStarting("Number of BPE ranks: ") : e < s /\ s < b
    /\ \A l \in CallsOf("from_pretrained") :
          \E b \in CallsOf("convert_tiktoken_to_fast") :
              /\ b < l
              /\ trace[b + 1] =
                    Printed(<<"Conversion completed! Fast tokenizer saved to ", output_dir>>)
    /\ exc = "ValueError: Unknown encoding" => CallsOf("convert_tiktoken_to_fast") = {}
    /\ exc = "BuildFailure" =>
          /\ CallsOf("from_pretrained") = {}
          /\ PrintsStarting("Number of BPE ranks: ") # {}
          /\ PrintsStarting("Number of special tokens: ") # {}

C9_Witness ==
    /\ pc = "done"
    /\ exc = "BuildFailure"
    /\ CallsOf("convert_tiktoken_to_fast") # {}
    /\ CallsOf("from_pretrained") = {}
    /\ PrintsStarting("Number of BPE ranks: ") # {}

\* C10: when the builder has saved the artifact and the loader then fails,
\* main returns None and the artifact is still in output_dir; and whenever
\* main returns a tokenizer the builder has saved the artifact.
C10_NoCleanup ==
    /\ (pc = "done" /\ exc = "LoadFailure") =>
          /\ result = None
          /\ artifact = "saved"
    /\ result # None => artifact = "saved"

C10_Witness ==
    /\ pc = "done"
    /\ exc = "LoadFailure"
    /\ result = None
    /\ artifact = "saved"

====
